---- MODULE Spec2Model ----
(***************************************************************************)
(* Model of the knowledge-graph population core of AGDR:                   *)
(*   - Neo4jClient (graph store), PgVectorClient / EmbedService (vector    *)
(*     store and similarity lookups),                                      *)
(*   - ConflictResolutionService and GraphPopulationService.add_entity /   *)
(*     add_relationship / merge_knowledge_graph,                           *)
(*   - KnowledgeGraphGenerator.merge_knowledge_graph and                   *)
(*     run_kg_generation_iterations.                                       *)
(* Similarity scores are integers in thousandths (0.975 is 975).           *)
(***************************************************************************)
EXTENDS Integers, Sequences, FiniteSets, TLC

\* ------------------------------------------------------------------ bounds
MaxBatches  == 1    \* merge_knowledge_graph calls in one behaviour
MaxEntities == 3    \* entities of one batch
MaxRels     == 2    \* relationships of one batch
MaxIterations == 3  \* max_iterations of a run
MaxJobs == 2        \* generation jobs of the web backend
MaxJobIterations == 1  \* iterations a generation job asks for

\* ------------------------------------------------------ program constants
AutoMergeThreshold == 975   \* similarity_score >= 0.975
ConflictThreshold  == 850   \* similarity_score >= 0.85
PathLimit          == 5     \* LIMIT 5 of find_longest_shortest_paths
MinNewNameLength   == 3     \* len(cr_result.new_name) > 3

\* ---------------------------------------------------------------- universes
Names    == {"Ann", "Bob", "Cleo", "AnnBob"}
Descs    == {"d1"}         \* descriptions of extracted entities
MergedDescs == {"d2"}      \* descriptions an arbitration proposes
RelTypes == {"commissioned", "built'"}
Scores   == {849, 850, 974, 975}

NoName == "None"        \* Python None (or "") where a name is expected
NoDesc == "NoDesc"      \* Python None (or "") where a description is expected
NoRow  == "NoRow"       \* no row under that entity_name in the vector store

\* Entity.category is a list; an empty list is the pydantic default.
CatChoices == {{}, {"c1"}}

Entities == [name : Names, description : Descs, category : CatChoices]

NoEntity == [name |-> NoName, description |-> NoDesc, category |-> {}]

Relationships ==
  [source_entity_name : Names, target_entity_name : Names, relation_type : RelTypes]

NoRelationship ==
  [source_entity_name |-> NoName, target_entity_name |-> NoName, relation_type |-> ""]

Pairs == {p \in SUBSET Names : Cardinality(p) = 2}

\* The capabilities and stores answering (TRUE) or failing (FALSE) during a call.
Healthy == {[graphUp |-> TRUE, embedUp |-> TRUE]}

VARIABLES
  nodes,         \* graph store: sequence of nodes, the index is the node id
  edges,         \* graph store: set of [src, rel, dst] over node ids
  vec,           \* vector store: entity_name -> description, NoRow if no row
  sim,           \* similarity of the name embeddings of a pair, 0 = not embedded yet
  pc,            \* position inside merge_knowledge_graph: "idle", "entities", "relationships"
  name_updates,  \* merge_knowledge_graph's local name_updates dict (NoName = key absent)
  last,          \* the last add_entity call of the current batch: arguments and results
  lastRel,       \* the last add_relationship call of the current batch
  fate,          \* per extracted name, what add_entity did with it in the current batch
  count,         \* add_entity and add_relationship calls of the current batch
  ret,           \* how the last merge_knowledge_graph ended: "none", "running", "returned", "raised"
  batches,       \* merge_knowledge_graph calls so far
  run,           \* run_kg_generation_iterations: its locals and what its rounds saw
  table,         \* the entity_embeddings table: sequence of rows in insertion order
  embedded,      \* per name, the description of its last successful embed_entity (NoRow: none, or removed since)
  response,      \* the content the extraction LLM answered
  extracted,     \* what extract_knowledge_graph made of it
  neighbors,     \* what the last get_nearest_neighbors_by_description returned
  jobs,          \* web backend: per generation job, the position of its task
  loop           \* web backend: the task the event loop is running, 0 = none

vars == <<nodes, edges, vec, sim, pc, name_updates, last, lastRel, fate, count, ret,
          batches, run, table, embedded, response, extracted, neighbors, jobs, loop>>

\* The variables of the web backend's jobs.
web == <<jobs, loop>>

\* The variables of the vector-store table, of the extraction parser and of
\* the web backend.
aside == <<table, embedded, response, extracted, neighbors, web>>

Min(S) == CHOOSE x \in S : \A y \in S : x <= y

\* ------------------------------------------------------------- graph store
NodeIds(ns, name) == {i \in 1..Len(ns) : ns[i].name = name}

NodeNames(ns) == {ns[i].name : i \in 1..Len(ns)}

\* MATCH (n {name: $name}) RETURN n, .single(); None when nothing matches or
\* the store raises. Returns the node id, 0 for None.
get_node_by_name(ns, name, graphUp) ==
  IF graphUp /\ NodeIds(ns, name) # {} THEN Min(NodeIds(ns, name)) ELSE 0

\* What a working rename would do (SET n.name, n.description on every match).
update_node_renames(ns, old_name, new_name, description, graphUp) ==
  IF ~graphUp THEN ns
  ELSE [i \in 1..Len(ns) |->
          IF ns[i].name = old_name
          THEN [ns[i] EXCEPT !.name = new_name, !.description = description]
          ELSE ns[i]]

\* The query handed to tx.run is a 2-tuple of strings, not a string: the
\* driver/server rejects it, the except clause logs it, nothing is written.
update_node_name_and_description(ns, old_name, new_name, description, graphUp) ==
  ns

\* create_node: an existing node of that name gets the labels merged and its
\* id returned; otherwise a node is created.  With an empty category list the
\* label string is "" and both "SET n:" and "CREATE (n: {...})" are Cypher
\* syntax errors: the except clause returns None (id 0).
create_node(ns, e, graphUp) ==
  IF ~graphUp \/ e.category = {}
  THEN [nodes |-> ns, id |-> 0]
  ELSE IF NodeIds(ns, e.name) # {}
  THEN LET i == Min(NodeIds(ns, e.name))
       IN [nodes |-> [ns EXCEPT ![i].labels = @ \cup e.category], id |-> i]
  ELSE [nodes |-> Append(ns, [name |-> e.name, description |-> e.description,
                              labels |-> e.category]),
        id |-> Len(ns) + 1]

\* rel_type with backticks and quotes removed (built' stands for a type holding such a character).
Sanitize(t) == IF t = "built'" THEN "built" ELSE t

\* A store that wires an endpoint matching no node to every node.
create_relationship_miswires(ns, ed, src, typ, tgt, graphUp) ==
  IF ~graphUp THEN ed
  ELSE ed \cup {[src |-> i, rel |-> Sanitize(typ), dst |-> j] :
                  i \in IF NodeIds(ns, src) = {} THEN 1..Len(ns) ELSE NodeIds(ns, src),
                  j \in IF NodeIds(ns, tgt) = {} THEN 1..Len(ns) ELSE NodeIds(ns, tgt)}

\* MATCH source, MATCH target, MERGE the edge: one edge per matched pair, none
\* when either name matches nothing; errors are logged, not raised.
create_relationship(ns, ed, src, typ, tgt, graphUp) ==
  IF ~graphUp THEN ed
  ELSE ed \cup {[src |-> i, rel |-> Sanitize(typ), dst |-> j] :
                  i \in NodeIds(ns, src), j \in NodeIds(ns, tgt)}

\* ------------------------------------------------------------ vector store
Rows(v) == {n \in Names : v[n] # NoRow}

\* INSERT ... ON CONFLICT (entity_name) DO UPDATE; nothing is stored when the
\* embedding capability or the store fails.
embed_entity(v, name, description, embedUp) ==
  IF embedUp THEN [v EXCEPT ![name] = description] ELSE v

\* A lookup that answers from the rows although the embedding call failed.
find_similar_entities_by_entity_name_unguarded(v, s, name, embedUp) ==
  {[name |-> n, score |-> s[{n, name}]] : n \in Rows(v) \ {name}}

\* Rows whose name embedding differs from the query's, with similarity
\* 1 - cosine distance; None (here {}) when there is none or on failure.
\* LIMIT 5 never binds: at most Cardinality(Names) - 1 rows qualify.
find_similar_entities_by_entity_name(v, s, name, embedUp) ==
  IF ~embedUp THEN {}
  ELSE {[name |-> n, score |-> s[{n, name}]] : n \in Rows(v) \ {name}}

\* get_nearest_neighbors_by_description selects four columns and unpacks three:
\* with at least one qualifying row the unpacking raises, which is caught and
\* turned into None; with no row the empty list becomes None in EmbedService.
find_similar_entities_by_description(v, description, embedUp) ==
  LET rows == {n \in Rows(v) : v[n] # description}
  IN IF ~embedUp \/ rows # {} THEN {} ELSE {}

\* Pairs whose similarity add_entity(name) reads.
ComparedPairs(v, name, embedUp) ==
  IF embedUp THEN {{n, name} : n \in Rows(v) \ {name}} ELSE {}

\* The embedding of a text is fixed (cache, deterministic model): a pair keeps
\* its score once it has one; a new pair gets any score.
RECURSIVE Extend(_, _)
Extend(s, ps) ==
  IF ps = {} THEN {s}
  ELSE LET p == CHOOSE q \in ps : TRUE
       IN UNION {Extend([s EXCEPT ![p] = x], ps \ {p}) :
                   x \in IF s[p] = 0 THEN Scores ELSE {s[p]}}

\* ------------------------------------------------ entity_embeddings table
\* The table itself, row by row, as insert_embedding and delete_embedding
\* leave it (vec above is the same store read as entity_name -> description).
RowsOf(t, name) == {i \in 1..Len(t) : t[i].entity_name = name}

\* A plain INSERT into a table without the UNIQUE constraint.
insert_embedding_appends(t, name, description) ==
  Append(t, [entity_name |-> name, description |-> description])

\* INSERT ... ON CONFLICT (entity_name) DO UPDATE SET ... description = EXCLUDED.description
insert_embedding(t, name, description) ==
  IF RowsOf(t, name) = {}
  THEN Append(t, [entity_name |-> name, description |-> description])
  ELSE [i \in 1..Len(t) |->
          IF t[i].entity_name = name
          THEN [t[i] EXCEPT !.description = description] ELSE t[i]]

\* SELECT entity_name, entity_name_embedding, description, distance ... WHERE
\* description_embedding != query ... LIMIT limit: each record has four
\* columns and is unpacked into three names, so the first record raises
\* ValueError, which the except clause turns into None ("absent").  With no
\* qualifying record the loop does not run and the empty list is returned.
\* The embedding of a text is fixed, so embeddings differ as descriptions do.
get_nearest_neighbors_by_description(t, description, limit) ==
  LET records == {i \in 1..Len(t) : t[i].description # description}
  IN [status |-> IF records = {} THEN "list" ELSE "absent",
      rows |-> <<>>, query |-> description, limit |-> limit]

\* DELETE FROM ... WHERE entity_name = %s
delete_embedding(t, name) ==
  LET keep(r) == r.entity_name # name IN SelectSeq(t, keep)

\* EmbedService.embed_entity on the table: nothing is stored when the store is
\* not connected or an embedding cannot be had.
embed_entity_row(t, name, description, embedUp) ==
  IF embedUp THEN insert_embedding(t, name, description) ELSE t

\* EmbedService.remove_entity on the table.
remove_entity(t, name, embedUp) ==
  IF embedUp THEN delete_embedding(t, name) ELSE t

NotEmbedded == [description |-> NoRow, overwrote |-> FALSE]

\* ------------------------------------------------------ conflict resolution
\* ConflictResolutionResult; Absent is the None an LLM client returns on an
\* API error, empty content, invalid JSON or a validation error.
Absent == [action |-> "absent", new_name |-> NoName, new_description |-> NoDesc,
           reasoning |-> ""]

NoResolution == [action |-> "not_called", new_name |-> NoName,
                 new_description |-> NoDesc, reasoning |-> ""]

\* What llm_client.conflict_resolution may return; "keep_existing", the mock
\* client's answer, stands for every action that is none of the three.
Responses ==
  {Absent}
  \cup [action : {"same", "keep_existing"}, new_name : {NoName},
        new_description : {NoDesc}, reasoning : {"llm"}]
  \cup [action : {"merge"}, new_name : Names \cup {NoName},
        new_description : MergedDescs \cup {NoDesc}, reasoning : {"llm"}]
  \cup [action : {"distinct"}, new_name : Names \cup {NoName},
        new_description : {NoDesc}, reasoning : {"llm"}]

DefaultDistinct ==
  [action |-> "distinct", new_name |-> NoName, new_description |-> NoDesc,
   reasoning |-> "Failed to get a resolution from the LLM, defaulting to distinct."]

\* A resolver that reads every answer outside the three actions as "same".
resolve_entity_conflict_coerces(existing, cr_result) ==
  IF existing = 0
  THEN [raised |-> TRUE, arbiterCalls |-> 0, resolution |-> NoResolution]
  ELSE [raised |-> FALSE, arbiterCalls |-> 1,
        resolution |-> IF cr_result.action \in {"same", "merge", "distinct"}
                       THEN cr_result
                       ELSE [cr_result EXCEPT !.action = "same"]]

\* resolve_entity_conflict(existing_entity, new_entity): existing_entity.name
\* raises AttributeError when existing_entity is None (existing = 0); the two
\* subgraph reads change nothing; a None from the LLM becomes "distinct".
resolve_entity_conflict(existing, cr_result) ==
  IF existing = 0
  THEN [raised |-> TRUE, arbiterCalls |-> 0, resolution |-> NoResolution]
  ELSE [raised |-> FALSE, arbiterCalls |-> 1,
        resolution |-> IF cr_result = Absent THEN DefaultDistinct ELSE cr_result]

\* -------------------------------------------------------------- add_entity
NoMatch == [name |-> NoName, score |-> 0]

\* similar_entities after pooling: both lists when both are non-empty, else
\* the non-empty one.
Pool(byName, byDescription) ==
  IF byName # {} /\ byDescription # {} THEN byName \cup byDescription
  ELSE IF byName # {} THEN byName
  ELSE byDescription

\* similar_entities[0] after an ascending sort.
MostSimilar_ascending(pool) ==
  IF pool = {} THEN {NoMatch}
  ELSE {m \in pool : \A o \in pool : m.score <= o.score}

\* similar_entities[0] after the descending sort; ties are in the store's order.
MostSimilar(pool) ==
  IF pool = {} THEN {NoMatch}
  ELSE {m \in pool : \A o \in pool : m.score >= o.score}

\* Off-by-one variants of the two tests.
InAutoMergeZone_strict(score) == score > AutoMergeThreshold

InConflictZone_strict(score) == score > ConflictThreshold

\* The arbitration zone test of the elif.
InConflictZone(score) == score >= ConflictThreshold

\* The auto-merge test of the if.
InAutoMergeZone(score) == score >= AutoMergeThreshold

\* An add_entity that embeds the entity whatever create_node returned.
EmbedsAfterCreate_always(entity_id) == TRUE

\* "if entity_id:" after create_node: only a created node is embedded.
EmbedsAfterCreate(entity_id) == entity_id # 0

\* add_entity(entity): most is similar_entities[0] (NoMatch when the pool is
\* empty), cr_result what the LLM answers if asked.  The result holds the
\* stores after the call, the entity's name and description after the call,
\* the returned id (0 = None), whether an exception escaped, and how often
\* the resolver, the LLM and create_node were called.
add_entity(ns, v, e, most, cr_result, graphUp, embedUp) ==
  LET base == [nodes |-> ns, vec |-> v, name |-> e.name,
               description |-> e.description, id |-> 0, raised |-> FALSE,
               resolverCalls |-> 0, arbiterCalls |-> 0, createCalls |-> 0,
               resolution |-> NoResolution]
      existing == get_node_by_name(ns, most.name, graphUp)
      rr == resolve_entity_conflict(existing, cr_result)
      new_name == IF rr.resolution.new_name # NoName
                  THEN rr.resolution.new_name ELSE ns[existing].name
      new_description == IF rr.resolution.new_description # NoDesc
                         THEN rr.resolution.new_description
                         ELSE ns[existing].description
      matched ==
        IF most = NoMatch THEN base
        ELSE IF InAutoMergeZone(most.score) /\ e.name # most.name
        THEN \* entity.name is set before get_node_by_name(...).id is read
             IF existing = 0
             THEN [base EXCEPT !.name = most.name, !.raised = TRUE]
             ELSE [base EXCEPT !.name = most.name, !.id = existing]
        ELSE IF InConflictZone(most.score)
        THEN IF rr.raised
             THEN [base EXCEPT !.raised = TRUE, !.resolverCalls = 1]
             ELSE LET b == [base EXCEPT !.resolverCalls = 1,
                                        !.arbiterCalls = rr.arbiterCalls,
                                        !.resolution = rr.resolution]
                  IN IF rr.resolution.action = "same"
                     THEN [b EXCEPT !.name = ns[existing].name, !.id = existing]
                     ELSE IF rr.resolution.action = "merge"
                     THEN [b EXCEPT
                             !.nodes = update_node_name_and_description(
                                         ns, ns[existing].name, new_name,
                                         new_description, graphUp),
                             !.name = new_name,
                             !.description = new_description,
                             !.id = existing,
                             !.vec = embed_entity(v, new_name, new_description, embedUp)]
                     ELSE b
        ELSE base
      created == create_node(matched.nodes,
                             [name |-> matched.name,
                              description |-> matched.description,
                              category |-> e.category], graphUp)
  IN IF matched.raised \/ matched.id # 0 THEN matched
     ELSE [matched EXCEPT
             !.nodes = created.nodes,
             !.id = created.id,
             !.createCalls = 1,
             !.vec = IF EmbedsAfterCreate(created.id)
                     THEN embed_entity(matched.vec, matched.name,
                                       matched.description, embedUp)
                     ELSE matched.vec]

\* add_relationship: create_relationship never raises, so True is returned
\* whether or not an edge was written.
add_relationship(ns, ed, src, typ, tgt, graphUp) ==
  [edges |-> create_relationship(ns, ed, src, typ, tgt, graphUp), ok |-> TRUE]

\* ------------------------------------------------ extract_knowledge_graph
\* The content of the extraction LLM's answer.  In a JSON object a key may be
\* missing, and a value may be something that is no string (NotAString: an
\* object, a list).  "c1" as a raw category stands for the list ["c1"].
Missing == "<missing>"

NotAString == "<object>"

RawEntities ==
  [name : {Missing, "Ann", NotAString}, description : {Missing, "d1"},
   category : {Missing, "c1"}]

RawRelationships ==
  [source_entity_name : {Missing, "Ann"}, target_entity_name : {Missing, "Bob", NotAString},
   relation_type : {Missing, "commissioned"}]

UpToOne(S) == {<<>>} \cup {<<x>> : x \in S}

\* "empty": no content; "invalid_json": content json.loads rejects.
Contents ==
  [kind : {"empty", "invalid_json"}, entities : {<<>>}, relationships : {<<>>}]
  \cup [kind : {"json"}, entities : UpToOne(RawEntities),
        relationships : UpToOne(RawRelationships)]

NoResponse == [kind |-> "none", entities |-> <<>>, relationships |-> <<>>]

NoExtraction == [status |-> "none", entities |-> <<>>, relationships |-> <<>>]

\* The None of extract_knowledge_graph.
AbsentGraph == [status |-> "absent", entities |-> <<>>, relationships |-> <<>>]

\* A pydantic field with a default: a missing key takes the default.
Default(x, d) == IF x = Missing THEN d ELSE x

\* Entity(**raw): name "Unknown", description "", category [] by default.
ParseEntity(r) ==
  [name |-> Default(r.name, "Unknown"),
   description |-> Default(r.description, ""),
   category |-> IF r.category = Missing THEN {} ELSE {r.category}]

\* Relationship(**raw): "Unknown", "Unknown", "unclassified" by default.
ParseRelationship(r) ==
  [source_entity_name |-> Default(r.source_entity_name, "Unknown"),
   target_entity_name |-> Default(r.target_entity_name, "Unknown"),
   relation_type |-> Default(r.relation_type, "unclassified")]

\* ValidationError: a str field holds something that is no string.
Invalid(c) ==
  \/ \E i \in 1..Len(c.entities) : c.entities[i].name = NotAString
  \/ \E i \in 1..Len(c.relationships) :
       c.relationships[i].target_entity_name = NotAString

\* OpenAIClient.extract_knowledge_graph: None for no content, for invalid
\* JSON and for a validation error, else KnowledgeGraph(**structured_data).
extract_knowledge_graph(c) ==
  IF c.kind # "json" \/ Invalid(c) THEN AbsentGraph
  ELSE [status |-> "graph",
        entities |-> [i \in 1..Len(c.entities) |-> ParseEntity(c.entities[i])],
        relationships |-> [i \in 1..Len(c.relationships) |->
                             ParseRelationship(c.relationships[i])]]

\* -------------------------------------------------- merge_knowledge_graph
NoUpdates == [n \in Names |-> NoName]

\* A relationship loop without the name_updates lookups.
Rewrite_none(updates, name) == name

Rewrite(updates, name) == IF updates[name] # NoName THEN updates[name] ELSE name

\* Whether add_entity reaches the LLM with this match.
Arbitrated(ns, e, most, graphUp) ==
  /\ most # NoMatch
  /\ ~(InAutoMergeZone(most.score) /\ e.name # most.name)
  /\ InConflictZone(most.score)
  /\ get_node_by_name(ns, most.name, graphUp) # 0

\* The record of an add_entity call: the entity as extracted, the match and
\* the LLM answer it met, what it returned, the stores' sizes before it.
Observation(e, most, cr_result, env, r) ==
  [orig |-> e, most |-> most, cr |-> cr_result, env |-> env,
   name |-> r.name, description |-> r.description, id |-> r.id,
   raised |-> r.raised, resolverCalls |-> r.resolverCalls,
   arbiterCalls |-> r.arbiterCalls, createCalls |-> r.createCalls,
   resolution |-> r.resolution,
   nodesBefore |-> Len(nodes), rowsBefore |-> Cardinality(Rows(vec)),
   prev |-> last.orig]

NoObservation ==
  [orig |-> NoEntity, most |-> NoMatch, cr |-> Absent,
   env |-> [graphUp |-> TRUE, embedUp |-> TRUE],
   name |-> NoName, description |-> NoDesc, id |-> 0,
   raised |-> FALSE, resolverCalls |-> 0, arbiterCalls |-> 0, createCalls |-> 0,
   resolution |-> NoResolution, nodesBefore |-> 0, rowsBefore |-> 0,
   prev |-> NoEntity]

\* dangling: the relationships of the batch so far of which an endpoint named
\* no node when they were written.
NoRelObservation ==
  [orig |-> NoRelationship, source |-> NoName, target |-> NoName,
   wired |-> {}, ok |-> FALSE, dangling |-> 0]

Dangling(ns, src, tgt) == NodeIds(ns, src) = {} \/ NodeIds(ns, tgt) = {}

NoFate == [action |-> "none", existing |-> NoName, name |-> NoName]

\* What became of an extracted name: "raised", the resolution's action,
\* "auto" for the auto-merge, "new" when no match asked for a decision.
Fate(e, most, r) ==
  [action |-> IF r.raised THEN "raised"
              ELSE IF r.resolverCalls = 1 THEN r.resolution.action
              ELSE IF r.name # e.name THEN "auto"
              ELSE "new",
   existing |-> most.name,
   name |-> r.name]

NoPath == [startNodeName |-> NoName, endNodeName |-> NoName, shortestPathLength |-> 0]

\* Before run_kg_generation_iterations: prompt "initial" is initial_prompt,
\* a name stands for the prompt built from that node.
NoRun ==
  [max_iterations |-> 0, i |-> 0, previous_node_name |-> NoName, prompt |-> "initial",
   pathCalls |-> 0, reasoningCalls |-> 0, extractionCalls |-> 0,
   paths |-> {}, prevPaths |-> {}, path |-> NoPath, target |-> NoName,
   prevTarget |-> NoName, absentAt |-> 0, extraction |-> "none"]

\* No by-description query was made yet.
NoNeighbors == [status |-> "none", rows |-> <<>>, query |-> NoDesc, limit |-> 0]

Jobs == 1..MaxJobs

\* A job nobody asked for yet.  pc is the await the job's task is suspended
\* at, or its position inside merge_knowledge_graph.
NoJob == [pc |-> "none", iterations |-> 0, i |-> 0, entities |-> 0, relationships |-> 0]

InitStores ==
  /\ nodes = <<>>
  /\ edges = {}
  /\ vec = [n \in Names |-> NoRow]
  /\ table = <<>>
  /\ embedded = [n \in Names |-> NotEmbedded]

InitMerge ==
  /\ pc = "idle"
  /\ name_updates = NoUpdates
  /\ last = NoObservation
  /\ lastRel = NoRelObservation
  /\ fate = [n \in Names |-> NoFate]
  /\ count = [entities |-> 0, relationships |-> 0]
  /\ ret = "none"
  /\ batches = 0
  /\ run = NoRun
  /\ response = NoResponse
  /\ extracted = NoExtraction
  /\ neighbors = NoNeighbors
  /\ jobs = [j \in Jobs |-> NoJob]
  /\ loop = 0

Init ==
  /\ InitStores
  /\ sim = [p \in Pairs |-> 0]
  /\ InitMerge

\* merge_knowledge_graph is entered: name_updates = {}.
BeginMerge ==
  /\ pc = "idle"
  /\ batches < MaxBatches
  /\ pc' = "entities"
  /\ batches' = batches + 1
  /\ name_updates' = NoUpdates
  /\ last' = NoObservation
  /\ lastRel' = NoRelObservation
  /\ fate' = [n \in Names |-> NoFate]
  /\ count' = [entities |-> 0, relationships |-> 0]
  /\ ret' = "running"
  /\ UNCHANGED <<nodes, edges, vec, sim, run, aside>>

\* A method that would return to its entity loop after a relationship.
InEntityLoop_reentrant(p) == p \in {"entities", "relationships"}

\* The entity loop runs to its end before the relationship loop starts.
InEntityLoop(p) == p = "entities"

\* One pass of "for entity in knowledge_graph.entities": add_entity, then the
\* name_updates entry.  An exception of add_entity leaves the method.
MergeEntityOf(ES, RS, Envs) ==
  /\ InEntityLoop(pc)
  /\ count.entities < MaxEntities
  /\ \E e \in ES, env \in Envs :
       \E s \in Extend(sim, ComparedPairs(vec, e.name, env.embedUp)) :
         LET pool == Pool(find_similar_entities_by_entity_name(vec, s, e.name, env.embedUp),
                          find_similar_entities_by_description(vec, e.description, env.embedUp))
         IN \E most \in MostSimilar(pool) :
              \E cr_result \in IF Arbitrated(nodes, e, most, env.graphUp)
                               THEN RS ELSE {Absent} :
                LET r == add_entity(nodes, vec, e, most, cr_result,
                                    env.graphUp, env.embedUp)
                IN /\ nodes' = r.nodes
                   /\ vec' = r.vec
                   /\ sim' = s
                   /\ last' = Observation(e, most, cr_result, env, r)
                   /\ fate' = [fate EXCEPT ![e.name] = Fate(e, most, r)]
                   /\ IF r.raised
                      THEN /\ pc' = "idle"
                           /\ ret' = "raised"
                           /\ UNCHANGED name_updates
                      ELSE /\ pc' = "entities"
                           /\ ret' = ret
                           /\ name_updates' =
                                IF r.name # e.name
                                THEN [name_updates EXCEPT ![e.name] = r.name]
                                ELSE name_updates
  /\ count' = [count EXCEPT !.entities = @ + 1]
  /\ UNCHANGED <<edges, lastRel, batches, run, aside>>

\* One pass of "for relationship in knowledge_graph.relationships": the two
\* name_updates lookups, then add_relationship.
MergeRelationshipOf(RelS, Envs) ==
  /\ pc \in {"entities", "relationships"}
  /\ count.relationships < MaxRels
  /\ \E rel \in RelS, env \in Envs :
       LET src == Rewrite(name_updates, rel.source_entity_name)
           tgt == Rewrite(name_updates, rel.target_entity_name)
           r == add_relationship(nodes, edges, src, rel.relation_type, tgt, env.graphUp)
       IN /\ edges' = r.edges
          /\ lastRel' = [orig |-> rel, source |-> src, target |-> tgt,
                         wired |-> r.edges \ edges, ok |-> r.ok,
                         dangling |-> lastRel.dangling
                                      + IF Dangling(nodes, src, tgt) THEN 1 ELSE 0]
  /\ pc' = "relationships"
  /\ count' = [count EXCEPT !.relationships = @ + 1]
  /\ UNCHANGED <<nodes, vec, sim, name_updates, last, fate, ret, batches, run, aside>>

\* return knowledge_graph
EndMerge ==
  /\ pc \in {"entities", "relationships"}
  /\ pc' = "idle"
  /\ ret' = "returned"
  /\ UNCHANGED <<nodes, edges, vec, sim, name_updates, last, lastRel, fate, count, batches, run, aside>>

\* Batches of entities alone, with every extracted entity, every answer of
\* the LLM and every similarity.
MergeEntity == MergeEntityOf(Entities, Responses, Healthy)

Next == BeginMerge \/ MergeEntity \/ EndMerge

Spec == Init /\ [][Next]_vars

\* Batches with relationships.  The embedding model is one of those under
\* which Bob resembles Ann with some score and nothing else resembles
\* anything; the LLM answers nothing, "same", or "merge" with any name; the
\* relationships are of one type.
BobResemblesAnn ==
  {[p \in Pairs |-> IF p = {"Ann", "Bob"} THEN x ELSE 849] : x \in Scores}

MergeAnswers ==
  {r \in Responses : r.action \in {"absent", "same", "merge"} /\ r.new_description = NoDesc}

InitRel ==
  /\ InitStores
  /\ sim \in BobResemblesAnn
  /\ InitMerge

MergeEntityRel == MergeEntityOf(Entities, MergeAnswers, Healthy)

Commissions == {r \in Relationships : r.relation_type = "commissioned"}

MergeRelationship == MergeRelationshipOf(Commissions, Healthy)

NextRel == BeginMerge \/ MergeEntityRel \/ MergeRelationship \/ EndMerge

SpecRel == InitRel /\ [][NextRel]_vars

\* Batches with relationships under an embedding model by which two names
\* resemble Ann: Bob just below or at the auto-merge threshold, Cleo at the
\* conflict threshold.
BobAndCleoResembleAnn ==
  {[p \in Pairs |-> IF p = {"Ann", "Bob"} THEN x
                    ELSE IF p = {"Ann", "Cleo"} THEN ConflictThreshold
                    ELSE 849] : x \in {974, 975}}

InitChain ==
  /\ InitStores
  /\ sim \in BobAndCleoResembleAnn
  /\ InitMerge

SpecChain == InitChain /\ [][NextRel]_vars

\* Batches of entities during which the embedding capability may fail for
\* the whole of an add_entity call.
EmbedOutages == Healthy \cup {[graphUp |-> TRUE, embedUp |-> FALSE]}

MergeEntityOutage == MergeEntityOf(Entities, MergeAnswers, EmbedOutages)

NextOutage == BeginMerge \/ MergeEntityOutage \/ EndMerge

SpecOutage == Init /\ [][NextOutage]_vars

\* The variables of the population and of the run.
core == <<nodes, edges, vec, sim, pc, name_updates, last, lastRel, fate, count, ret,
          batches, run>>

\* A caller embeds an entity; the embedder or the store may fail.
EmbedEntity ==
  /\ \E name \in Names, description \in Descs \cup MergedDescs, env \in EmbedOutages :
       /\ table' = embed_entity_row(table, name, description, env.embedUp)
       /\ embedded' =
            IF env.embedUp
            THEN [embedded EXCEPT ![name] = [description |-> description,
                                             overwrote |-> RowsOf(table, name) # {}]]
            ELSE embedded
  /\ UNCHANGED <<core, response, extracted, neighbors, web>>

\* A caller removes an entity's embedding.
RemoveEntity ==
  /\ \E name \in Names, env \in EmbedOutages :
       /\ table' = remove_entity(table, name, env.embedUp)
       /\ embedded' = IF env.embedUp THEN [embedded EXCEPT ![name] = NotEmbedded]
                      ELSE embedded
  /\ UNCHANGED <<core, response, extracted, neighbors, web>>

\* The limits a caller passes (the default is 5).
Limits == {1, 5}

\* A caller asks for the nearest neighbours of a description's embedding on
\* the connected store.
NearestByDescription ==
  /\ \E description \in Descs \cup MergedDescs, limit \in Limits :
       neighbors' = get_nearest_neighbors_by_description(table, description, limit)
  /\ UNCHANGED <<core, table, embedded, response, extracted, web>>

NextTable == EmbedEntity \/ RemoveEntity \/ NearestByDescription

SpecTable == Init /\ [][NextTable]_vars

\* One call of extract_knowledge_graph: the LLM's content, then the parse.
ExtractKnowledgeGraph ==
  /\ \E c \in Contents :
       /\ response' = c
       /\ extracted' = extract_knowledge_graph(c)
  /\ UNCHANGED <<core, table, embedded, neighbors, web>>

NextExtract == ExtractKnowledgeGraph

SpecExtract == Init /\ [][NextExtract]_vars

\* ====================================================================
\* KnowledgeGraphGenerator: its own merge_knowledge_graph and the run loop
\* ====================================================================
\* EntityService.update_entity: embed under the new name, then the rename.
update_entity(ns, v, old_name, new_name, description, graphUp, embedUp) ==
  [vec |-> embed_entity(v, new_name, description, embedUp),
   nodes |-> update_node_name_and_description(ns, old_name, new_name, description, graphUp)]

\* len(name) of the names of the universe.
NameLength(name) ==
  CASE name = "Ann" -> 3 [] name = "Bob" -> 3 [] name = "Cleo" -> 4
    [] name = "AnnBob" -> 6 [] OTHER -> 0

\* resolve_entity_insertion_conflict(knowledge_graph_data, existing_entity,
\* new_entity): existing_entity.name raises when existing_entity is None
\* (existing = 0).  The result holds the stores and new_entity.name after it.
resolve_entity_insertion_conflict(ns, v, existing, e, cr_result, graphUp, embedUp) ==
  LET keep == [raised |-> FALSE, nodes |-> ns, vec |-> v, name |-> e.name]
  IN IF existing = 0 THEN [keep EXCEPT !.raised = TRUE]
     ELSE IF cr_result.action = "same"
     THEN [keep EXCEPT !.name = ns[existing].name]
     ELSE IF cr_result.action = "merge"
     THEN LET new_entity_name == IF cr_result.new_name # NoName
                                 THEN cr_result.new_name ELSE ns[existing].name
              new_entity_description == IF cr_result.new_description # NoDesc
                                        THEN cr_result.new_description
                                        ELSE ns[existing].description
              u == update_entity(ns, v, ns[existing].name, new_entity_name,
                                 new_entity_description, graphUp, embedUp)
          IN [keep EXCEPT !.nodes = u.nodes, !.vec = u.vec, !.name = new_entity_name]
     ELSE IF /\ cr_result.action = "distinct"
             /\ cr_result.new_name # NoName
             /\ NameLength(cr_result.new_name) > MinNewNameLength
     THEN LET u == update_entity(ns, v, e.name, cr_result.new_name,
                                 IF cr_result.new_description # NoDesc
                                 THEN cr_result.new_description ELSE e.description,
                                 graphUp, embedUp)
          IN [keep EXCEPT !.nodes = u.nodes, !.vec = u.vec, !.name = cr_result.new_name]
     ELSE keep

\* The body of "for entity in new_knowledge_graph_data.entities": the name
\* decision, then always create_entity_node and, if it gave an id, embed_entity.
merge_entity(ns, v, e, most, cr_result, graphUp, embedUp) ==
  LET base == [nodes |-> ns, vec |-> v, name |-> e.name,
               description |-> e.description, id |-> 0, raised |-> FALSE,
               resolverCalls |-> 0, arbiterCalls |-> 0, createCalls |-> 0,
               resolution |-> NoResolution]
      existing == get_node_by_name(ns, most.name, graphUp)
      rr == resolve_entity_insertion_conflict(ns, v, existing, e, cr_result,
                                              graphUp, embedUp)
      matched ==
        IF most = NoMatch THEN base
        ELSE IF InAutoMergeZone(most.score) /\ e.name # most.name
        THEN [base EXCEPT !.name = most.name]
        ELSE IF InConflictZone(most.score)
        THEN IF rr.raised
             THEN [base EXCEPT !.raised = TRUE, !.resolverCalls = 1]
             ELSE [base EXCEPT !.nodes = rr.nodes, !.vec = rr.vec, !.name = rr.name,
                               !.resolverCalls = 1, !.arbiterCalls = 1,
                               !.resolution = cr_result]
        ELSE base
      created == create_node(matched.nodes,
                             [name |-> matched.name, description |-> e.description,
                              category |-> e.category], graphUp)
  IN IF matched.raised THEN matched
     ELSE [matched EXCEPT
             !.nodes = created.nodes,
             !.id = created.id,
             !.createCalls = 1,
             !.vec = IF created.id # 0
                     THEN embed_entity(matched.vec, matched.name, e.description, embedUp)
                     ELSE matched.vec]

\* The in-place rewriting of the batch's relationships: every endpoint that
\* reads old_name now reads new_name from here on.
Relabel(updates, old_name, new_name) ==
  [x \in Names |->
     IF Rewrite(updates, x) # old_name THEN updates[x]
     ELSE IF new_name = x THEN NoName ELSE new_name]

\* ------------------------------------------ find_longest_shortest_paths
Adjacent(ed, i) ==
  {e.dst : e \in {d \in ed : d.src = i}} \cup {e.src : e \in {d \in ed : d.dst = i}}

RECURSIVE Ball(_, _, _)
Ball(ed, i, k) ==
  IF k = 0 THEN {i}
  ELSE LET b == Ball(ed, i, k - 1) IN b \cup UNION {Adjacent(ed, x) : x \in b}

\* length(shortestPath((i)-[*]-(j))), 0 when there is no path.
PathLength(ns, ed, i, j) ==
  LET ks == {k \in 1..Len(ns) : j \in Ball(ed, i, k)}
  IN IF ks = {} THEN 0 ELSE Min(ks)

\* Every pair start < end with a connecting path, as returned rows.
ConnectedPairs(ns, ed) ==
  {[startNodeName |-> ns[i].name, endNodeName |-> ns[j].name,
    shortestPathLength |-> PathLength(ns, ed, i, j)] :
     <<i, j>> \in {q \in (1..Len(ns)) \X (1..Len(ns)) :
                     q[1] < q[2] /\ PathLength(ns, ed, q[1], q[2]) > 0}}

\* ORDER BY shortestPathLength DESC LIMIT 5: the results the query may give
\* (ties are in no defined order); None, read as empty, when the store fails.
find_longest_shortest_paths(ns, ed, graphUp) ==
  LET all == ConnectedPairs(ns, ed)
  IN IF ~graphUp THEN {{}}
     ELSE IF Cardinality(all) <= PathLimit THEN {all}
     ELSE {top \in SUBSET all :
             /\ Cardinality(top) = PathLimit
             /\ \A t \in top, o \in all \ top :
                  t.shortestPathLength >= o.shortestPathLength}

\* ------------------------------------------ run_kg_generation_iterations
\* A scheduler that never swaps to the path's other endpoint.
ChooseTarget_noswap(path, previous_node_name) == path.endNodeName

\* start_node_name: the path's end, or its start when the end was the
\* previous round's node.
ChooseTarget(path, previous_node_name) ==
  IF previous_node_name = path.endNodeName
  THEN path.startNodeName ELSE path.endNodeName

\* for i in range(max_iterations): the position after round i.
NextRound(i, max_iterations) == IF i < max_iterations THEN "schedule" ELSE "done"

\* A loop that goes on to the next round when no trace came.
OnNoTrace_continue(i, max_iterations) ==
  IF i < max_iterations THEN "schedule" ELSE "done"

\* "if not reasoning_trace: break".
OnNoTrace(i, max_iterations) == "done"

\* The run is entered with some max_iterations.
StartRun ==
  /\ pc = "idle"
  /\ ret = "none"
  /\ \E m \in 1..MaxIterations :
       /\ run' = [NoRun EXCEPT !.max_iterations = m]
       /\ pc' = NextRound(0, m)
       /\ ret' = IF NextRound(0, m) = "done" THEN "completed" ELSE "running"
  /\ UNCHANGED <<nodes, edges, vec, sim, name_updates, last, lastRel, fate, count, batches, aside>>

\* A round up to the reasoning call: the paths query, random.choice, the
\* target and the prompt, generate_reasoning_trace (trace = FALSE: None or "").
BeginRoundOf(Envs) ==
  /\ pc = "schedule"
  /\ \E env \in Envs, trace \in BOOLEAN :
       \E ls_paths \in find_longest_shortest_paths(nodes, edges, env.graphUp) :
         \E path \in IF ls_paths = {} THEN {NoPath} ELSE ls_paths :
           LET start_node_name == ChooseTarget(path, run.previous_node_name)
               scheduled == ls_paths # {}
               absent == IF trace THEN run.absentAt ELSE run.i + 1
           IN /\ run' = [run EXCEPT
                           !.i = @ + 1,
                           !.pathCalls = @ + 1,
                           !.reasoningCalls = @ + 1,
                           !.previous_node_name = IF scheduled THEN start_node_name ELSE @,
                           !.prompt = IF scheduled THEN start_node_name ELSE @,
                           !.paths = ls_paths,
                           !.prevPaths = run.paths,
                           !.path = path,
                           !.target = IF scheduled THEN start_node_name ELSE NoName,
                           !.prevTarget = run.previous_node_name,
                           !.absentAt = absent,
                           !.extraction = "none"]
              /\ pc' = IF trace THEN "extract"
                       ELSE OnNoTrace(run.i + 1, run.max_iterations)
              /\ ret' = IF trace THEN ret
                        ELSE IF OnNoTrace(run.i + 1, run.max_iterations) = "done"
                        THEN "stopped" ELSE ret
  /\ UNCHANGED <<nodes, edges, vec, sim, name_updates, last, lastRel, fate, count, batches, aside>>

\* A loop that merges whatever graph the extraction returned.
Mergeable_any_graph(got) == got # "absent"

\* "if new_knowledge_graph_data and new_knowledge_graph_data.entities"
Mergeable(got) == got = "entities"

\* generate_knowledge_graph_data: None, a graph without entities (with or
\* without relationships), or a graph with entities, which
\* merge_knowledge_graph then takes.
Extract ==
  /\ pc = "extract"
  /\ \E got \in {"absent", "empty", "entities"} :
       /\ Mergeable(got) => batches < MaxBatches
       /\ run' = [run EXCEPT !.extractionCalls = @ + 1, !.extraction = got]
       /\ IF Mergeable(got)
          THEN /\ pc' = "entities"
               /\ batches' = batches + 1
               /\ name_updates' = NoUpdates
               /\ last' = NoObservation
               /\ lastRel' = NoRelObservation
               /\ fate' = [n \in Names |-> NoFate]
               /\ count' = [entities |-> 0, relationships |-> 0]
               /\ ret' = ret
          ELSE /\ pc' = NextRound(run.i, run.max_iterations)
               /\ ret' = IF NextRound(run.i, run.max_iterations) = "done"
                         THEN "completed" ELSE ret
               /\ UNCHANGED <<name_updates, last, lastRel, fate, count, batches>>
  /\ UNCHANGED <<nodes, edges, vec, sim, aside>>

\* One pass of the entity loop of KnowledgeGraphGenerator.merge_knowledge_graph;
\* an exception leaves merge_knowledge_graph and the run.
KggEntityOf(ES, RS, Envs) ==
  /\ pc = "entities"
  /\ count.entities < MaxEntities
  /\ \E e \in ES, env \in Envs :
       \E s \in Extend(sim, ComparedPairs(vec, e.name, env.embedUp)) :
         LET pool == Pool(find_similar_entities_by_entity_name(vec, s, e.name, env.embedUp),
                          find_similar_entities_by_description(vec, e.description, env.embedUp))
         IN \E most \in MostSimilar(pool) :
              \E cr_result \in IF Arbitrated(nodes, e, most, env.graphUp)
                               THEN RS ELSE {Absent} :
                LET r == merge_entity(nodes, vec, e, most, cr_result,
                                      env.graphUp, env.embedUp)
                IN /\ nodes' = r.nodes
                   /\ vec' = r.vec
                   /\ sim' = s
                   /\ last' = Observation(e, most, cr_result, env, r)
                   /\ fate' = [fate EXCEPT ![e.name] = Fate(e, most, r)]
                   /\ pc' = IF r.raised THEN "done" ELSE "entities"
                   /\ ret' = IF r.raised THEN "raised" ELSE ret
                   /\ name_updates' = IF r.raised THEN name_updates
                                      ELSE Relabel(name_updates, e.name, r.name)
  /\ count' = [count EXCEPT !.entities = @ + 1]
  /\ UNCHANGED <<edges, lastRel, batches, run, aside>>

\* One pass of the relationship loop: create_relationship with the endpoints
\* as the entity loop left them.
KggRelationshipOf(RelS, Envs) ==
  /\ pc \in {"entities", "relationships"}
  /\ count.entities >= 1
  /\ count.relationships < MaxRels
  /\ \E rel \in RelS, env \in Envs :
       LET src == Rewrite(name_updates, rel.source_entity_name)
           tgt == Rewrite(name_updates, rel.target_entity_name)
           ed == create_relationship(nodes, edges, src, rel.relation_type, tgt, env.graphUp)
       IN /\ edges' = ed
          /\ lastRel' = [orig |-> rel, source |-> src, target |-> tgt,
                         wired |-> ed \ edges, ok |-> TRUE,
                         dangling |-> lastRel.dangling
                                      + IF Dangling(nodes, src, tgt) THEN 1 ELSE 0]
  /\ pc' = "relationships"
  /\ count' = [count EXCEPT !.relationships = @ + 1]
  /\ UNCHANGED <<nodes, vec, sim, name_updates, last, fate, ret, batches, run, aside>>

\* merge_knowledge_graph returns (its locals are gone), the round's logging,
\* the next round.
EndBatch ==
  /\ pc \in {"entities", "relationships"}
  /\ count.entities >= 1
  /\ pc' = NextRound(run.i, run.max_iterations)
  /\ ret' = IF NextRound(run.i, run.max_iterations) = "done" THEN "completed" ELSE ret
  /\ name_updates' = NoUpdates
  /\ last' = NoObservation
  /\ lastRel' = NoRelObservation
  /\ fate' = [n \in Names |-> NoFate]
  /\ count' = [entities |-> 0, relationships |-> 0]
  /\ UNCHANGED <<nodes, edges, vec, sim, batches, run, aside>>

\* Runs under an embedding model that finds no two names similar; the
\* relationships are every "commissioned" and one of a type to sanitise.
Dissimilar == [p \in Pairs |-> 849]

RunRelationships ==
  Commissions \cup {r \in Relationships : /\ r.relation_type = "built'"
                                          /\ r.source_entity_name = "Ann"
                                          /\ r.target_entity_name = "Bob"}

InitRun ==
  /\ InitStores
  /\ sim = Dissimilar
  /\ InitMerge

BeginRound == BeginRoundOf(Healthy)

KggEntity == KggEntityOf(Entities, Responses, Healthy)

KggRelationship == KggRelationshipOf(RunRelationships, Healthy)

NextRun == StartRun \/ BeginRound \/ Extract \/ KggEntity \/ KggRelationship \/ EndBatch

SpecRun == InitRun /\ [][NextRun]_vars

\* Runs in which the graph store may be unreachable when a round asks it
\* for the paths (find_longest_shortest_paths then returns None).
GraphOutages == Healthy \cup {[graphUp |-> FALSE, embedUp |-> TRUE]}

BeginRoundOutage == BeginRoundOf(GraphOutages)

NextRunOutage ==
  StartRun \/ BeginRoundOutage \/ Extract \/ KggEntity \/ KggRelationship \/ EndBatch

SpecRunOutage == InitRun /\ [][NextRunOutage]_vars

\* ====================================================================
\* Web backend: generation jobs as asyncio tasks on one event loop
\* ====================================================================
\* Whether a task at this position is suspended at an await: every position
\* but those inside merge_knowledge_graph, which is a plain function.
Suspends_anywhere(p) == TRUE

Suspends(p) == p \notin {"entities", "relationships"}

\* The event loop runs one task at a time: a task steps when it holds the
\* loop or when no task does.
Runs(j) == loop \in {0, j}

\* The job's task moves to position p; the loop is free again if that is an
\* await.
Move(j, p) ==
  /\ jobs' = [jobs EXCEPT ![j].pc = p]
  /\ loop' = IF Suspends(p) THEN 0 ELSE j

\* What the jobs extract: entities with a category, one relationship.
JobEntities == {e \in Entities : e.category = {"c1"} /\ e.name \in {"Ann", "Bob"}}

JobRelationships ==
  {r \in Commissions : r.source_entity_name = "Ann" /\ r.target_entity_name = "Bob"}

\* POST /api/generate: the job is stored and its task created.
GenerateKnowledgeGraph ==
  /\ loop = 0
  /\ \E j \in Jobs, n \in 1..MaxJobIterations :
       /\ jobs[j].pc = "none"
       /\ jobs' = [jobs EXCEPT ![j] = [NoJob EXCEPT !.pc = "pending", !.iterations = n]]
  /\ UNCHANGED <<core, table, embedded, response, extracted, neighbors, loop>>

\* The start of an iteration, up to the iteration_start update; after the
\* last iteration, up to the job_completed update.
IterationStart ==
  /\ \E j \in Jobs :
       /\ Runs(j)
       /\ jobs[j].pc \in {"pending", "iteration_end"}
       /\ IF jobs[j].i < jobs[j].iterations
          THEN /\ jobs' = [jobs EXCEPT ![j].pc = "iteration_start", ![j].i = @ + 1]
               /\ loop' = 0
          ELSE Move(j, "job_completed")
  /\ UNCHANGED <<core, table, embedded, response, extracted, neighbors>>

\* The paths query and the prompt, up to the prompt_generated update.
GeneratePrompt ==
  /\ \E j \in Jobs :
       /\ Runs(j)
       /\ jobs[j].pc = "iteration_start"
       /\ Move(j, "prompt_generated")
  /\ UNCHANGED <<core, table, embedded, response, extracted, neighbors>>

\* The reasoning trace, up to the reasoning_trace update; without a trace,
\* the error update, the break and the job_completed update.
GenerateReasoningTrace ==
  /\ \E j \in Jobs, p \in {"reasoning_trace", "error"} :
       /\ Runs(j)
       /\ jobs[j].pc = "prompt_generated"
       /\ Move(j, p)
  /\ UNCHANGED <<core, table, embedded, response, extracted, neighbors>>

\* The extraction, up to the knowledge_extracted update or the info update.
ExtractGraph ==
  /\ \E j \in Jobs, p \in {"knowledge_extracted", "info"} :
       /\ Runs(j)
       /\ jobs[j].pc = "reasoning_trace"
       /\ Move(j, p)
  /\ UNCHANGED <<core, table, embedded, response, extracted, neighbors>>

\* merge_knowledge_graph is entered.
BeginJobMerge ==
  /\ \E j \in Jobs :
       /\ Runs(j)
       /\ jobs[j].pc = "knowledge_extracted"
       /\ jobs' = [jobs EXCEPT ![j].pc = "entities", ![j].entities = 0,
                               ![j].relationships = 0]
       /\ loop' = IF Suspends("entities") THEN 0 ELSE j
  /\ UNCHANGED <<core, table, embedded, response, extracted, neighbors>>

\* One add_entity of the job's batch; an exception ends the job as failed.
JobEntity ==
  /\ \E j \in Jobs, e \in JobEntities :
       /\ Runs(j)
       /\ jobs[j].pc = "entities"
       /\ jobs[j].entities < MaxEntities
       /\ LET pool == Pool(find_similar_entities_by_entity_name(vec, sim, e.name, TRUE),
                           find_similar_entities_by_description(vec, e.description, TRUE))
          IN \E most \in MostSimilar(pool) :
               LET r == add_entity(nodes, vec, e, most, Absent, TRUE, TRUE)
                   p == IF r.raised THEN "failed" ELSE "entities"
               IN /\ nodes' = r.nodes
                  /\ vec' = r.vec
                  /\ jobs' = [jobs EXCEPT ![j].pc = p, ![j].entities = @ + 1]
                  /\ loop' = IF Suspends(p) THEN 0 ELSE j
  /\ UNCHANGED <<edges, sim, pc, name_updates, last, lastRel, fate, count, ret,
                 batches, run, table, embedded, response, extracted, neighbors>>

\* One add_relationship of the job's batch.
JobRelationship ==
  /\ \E j \in Jobs, rel \in JobRelationships :
       /\ Runs(j)
       /\ jobs[j].pc \in {"entities", "relationships"}
       /\ jobs[j].entities >= 1
       /\ jobs[j].relationships < MaxRels
       /\ edges' = add_relationship(nodes, edges, rel.source_entity_name,
                                    rel.relation_type, rel.target_entity_name,
                                    TRUE).edges
       /\ jobs' = [jobs EXCEPT ![j].pc = "relationships", ![j].relationships = @ + 1]
       /\ loop' = IF Suspends("relationships") THEN 0 ELSE j
  /\ UNCHANGED <<nodes, vec, sim, pc, name_updates, last, lastRel, fate, count, ret,
                 batches, run, table, embedded, response, extracted, neighbors>>

\* merge_knowledge_graph returns, up to the graph_updated update.
EndJobMerge ==
  /\ \E j \in Jobs :
       /\ Runs(j)
       /\ jobs[j].pc \in {"entities", "relationships"}
       /\ jobs[j].entities >= 1
       /\ Move(j, "graph_updated")
  /\ UNCHANGED <<core, table, embedded, response, extracted, neighbors>>

\* Up to the iteration_end update.
IterationEnd ==
  /\ \E j \in Jobs :
       /\ Runs(j)
       /\ jobs[j].pc \in {"graph_updated", "info"}
       /\ Move(j, "iteration_end")
  /\ UNCHANGED <<core, table, embedded, response, extracted, neighbors>>

\* After the break: the job_completed update.  After that update the task
\* ends.  (A job failed by an exception stays at its last error update.)
EndJob ==
  /\ \E j \in Jobs :
       /\ Runs(j)
       /\ \/ jobs[j].pc = "error" /\ Move(j, "job_completed")
          \/ jobs[j].pc = "job_completed" /\ Move(j, "completed")
  /\ UNCHANGED <<core, table, embedded, response, extracted, neighbors>>

NextJobs ==
  \/ GenerateKnowledgeGraph \/ IterationStart \/ GeneratePrompt
  \/ GenerateReasoningTrace \/ ExtractGraph \/ BeginJobMerge \/ JobEntity
  \/ JobRelationship \/ EndJobMerge \/ IterationEnd \/ EndJob

SpecJobs == InitRun /\ [][NextJobs]_vars

\* ====================================================================
\* Properties of add_entity, checked under Spec
\* ====================================================================
Called == last.orig # NoEntity

Matched == Called /\ last.most # NoMatch

NoDuplicateNames ==
  \A i, j \in 1..Len(nodes) : nodes[i].name = nodes[j].name => i = j

\* C1: a best match at or above 0.975 under another name aliases the
\* candidate to the matched name without invoking the resolver and without
\* calling create_node; a best match in [0.85, 0.975), 0.974 included,
\* invokes the resolver exactly once.
C1_AutoMergeBoundary ==
  Matched =>
    /\ (last.most.score >= AutoMergeThreshold /\ last.most.name # last.orig.name)
         => /\ last.name = last.most.name
            /\ last.resolverCalls = 0
            /\ last.createCalls = 0
    /\ (last.most.score >= ConflictThreshold /\ last.most.score < AutoMergeThreshold)
         => last.resolverCalls = 1

C1_Witness ==
  /\ Matched
  /\ last.most.score = AutoMergeThreshold
  /\ last.most.name # last.orig.name
  /\ last.name = last.most.name
  /\ last.id # 0
  /\ last.resolverCalls = 0

\* C3: when the LLM asked by the resolver answers nothing, the resolution is
\* "distinct" with a non-empty reasoning, add_entity creates a node under the
\* candidate's name, the graph store then holds the existing node's name and
\* the candidate's name, and no exception escapes.
C3_FailOpen ==
  (Called /\ last.arbiterCalls = 1 /\ last.cr = Absent) =>
    /\ last.resolution.action = "distinct"
    /\ last.resolution.reasoning # ""
    /\ ~last.raised
    /\ last.createCalls = 1
    /\ last.id # 0
    /\ {last.most.name, last.orig.name} \subseteq NodeNames(nodes)

\* The resolver's part of C3 alone: a silent LLM gives "distinct" with a reasoning.
C3_DefaultsToDistinct ==
  /\ Called /\ last.arbiterCalls = 1 /\ last.cr = Absent
  /\ last.resolution = DefaultDistinct
  /\ ~last.raised
  /\ last.id # 0
  /\ {last.most.name, last.orig.name} \subseteq NodeNames(nodes)

\* C4: adding the same entity (name and description; here one with a category,
\* which create_node accepts) a second time leaves the number of nodes and the
\* number of vector-store rows as they were, and the graph store has no two
\* nodes of that name.
C4_IdempotentAdd ==
  (Called /\ last.prev = last.orig /\ last.orig.category # {}) =>
    /\ Len(nodes) = last.nodesBefore
    /\ Cardinality(Rows(vec)) = last.rowsBefore
    /\ Cardinality(NodeIds(nodes, last.orig.name)) <= 1

C4_SecondAddNoOp ==
  /\ Called /\ last.prev = last.orig
  /\ NodeIds(nodes, last.orig.name) # {}
  /\ Len(nodes) = last.nodesBefore
  /\ Cardinality(Rows(vec)) = last.rowsBefore

C10_ArbitrationIffZone ==
  Called =>
    /\ last.resolverCalls <= 1
    /\ (last.resolverCalls = 1) <=>
         (/\ last.most # NoMatch
          /\ last.most.score >= ConflictThreshold
          /\ last.most.score < AutoMergeThreshold)

C10_Witness ==
  /\ Matched
  /\ last.most.score = ConflictThreshold
  /\ last.resolverCalls = 1
  /\ last.arbiterCalls = 1

\* ====================================================================
\* Properties of merge_knowledge_graph, checked under SpecRel
\* ====================================================================
Wrote == lastRel.orig # NoRelationship

EdgeNames(ed) == {<<nodes[e.src].name, nodes[e.dst].name>> : e \in ed}

\* C2: when candidate B was merged with existing node A under a new name AB
\* and the batch holds a relationship B -> C to another node C, the edges
\* committed hold AB -> C, and the relationship is written neither as A -> C
\* nor as B -> C.
C2_CascadeMerge ==
  Wrote =>
    LET B == lastRel.orig.source_entity_name
        C == lastRel.orig.target_entity_name
        A == fate[B].existing
        AB == fate[B].name
    IN (/\ fate[B].action = "merge"
        /\ AB \notin {A, B}
        /\ C \notin {A, B, AB}
        /\ fate[C].action \in {"none", "new"}
        /\ NodeIds(nodes, C) # {})
       => /\ <<AB, C>> \in EdgeNames(edges)
          /\ EdgeNames(lastRel.wired) \cap {<<A, C>>, <<B, C>>} = {}

\* C5: a relationship of which, after the name_updates rewriting, the source
\* or the target names no node adds no edge, raises nothing, and leaves the
\* loop over the relationships running.
C5_DanglingDropped ==
  (Wrote /\ Dangling(nodes, lastRel.source, lastRel.target)) =>
    /\ lastRel.wired = {}
    /\ lastRel.ok
    /\ ret # "raised"
    /\ pc = "relationships" \/ ret = "returned"

\* A relationship is wired after an earlier one of the batch was dropped.
C5_Witness ==
  /\ Wrote
  /\ lastRel.dangling = 1
  /\ ~Dangling(nodes, lastRel.source, lastRel.target)
  /\ lastRel.wired # {}
  /\ Len(nodes) >= 2

\* ====================================================================
\* Properties of run_kg_generation_iterations, checked under SpecRun
\* ====================================================================
\* C7: when two consecutive rounds see the same non-empty path set, the
\* first round's target is an endpoint of the path the second round chooses
\* and that path's other endpoint has another name, the second round's target
\* is not the first round's.
C7_AntiRepeat ==
  (/\ run.i >= 2
   /\ run.paths # {}
   /\ run.paths = run.prevPaths
   /\ run.prevTarget \in {run.path.startNodeName, run.path.endNodeName}
   /\ run.path.startNodeName # run.path.endNodeName)
  => run.target # run.prevTarget

\* The second round chose the path that ends at the first round's target.
C7_Witness ==
  /\ run.i >= 2
  /\ run.paths # {}
  /\ run.paths = run.prevPaths
  /\ run.prevTarget = run.path.endNodeName
  /\ run.target = run.path.startNodeName
  /\ run.target # run.prevTarget

\* C8: a round whose reasoning trace is absent is the run's last, with no
\* call after it; a round whose extraction is absent or without entities is
\* followed by the next round unless it was round max_iterations; the
\* reasoning capability is called at most max_iterations times.
C8_IterationLoop ==
  /\ run.absentAt # 0 =>
       /\ pc = "done" /\ ret = "stopped"
       /\ run.i = run.absentAt
       /\ run.pathCalls = run.absentAt
       /\ run.reasoningCalls = run.absentAt
       /\ run.extractionCalls = run.absentAt - 1
  /\ run.extraction \in {"absent", "empty"} =>
       IF run.i < run.max_iterations
       THEN pc = "schedule" /\ ret = "running"
       ELSE pc = "done" /\ ret = "completed"
  /\ run.reasoningCalls <= run.max_iterations

\* The run stopped in round 2 of 3, after a round 1 that extracted nothing.
C8_Witness ==
  /\ run.max_iterations = 3
  /\ run.absentAt = 2
  /\ run.extractionCalls = 1
  /\ batches = 0
  /\ pc = "done"

\* C9: in the first batch on empty stores, distinctly named and mutually
\* dissimilar entities give one node each, and a relationship between two
\* entities of the batch gives its edge, of the relationship's type; with
\* GreatPyramid, PharaohKhufu and one "commissioned" that is two nodes, one edge.
BatchNames == {n \in Names : fate[n].action # "none"}

FirstBatch ==
  /\ batches = 1
  /\ pc \in {"entities", "relationships"}
  /\ Cardinality(BatchNames) = count.entities
  /\ \A p \in Pairs : p \subseteq BatchNames => sim[p] < ConflictThreshold

C9_EndToEnd ==
  FirstBatch =>
    /\ Len(nodes) = count.entities
    /\ Cardinality(edges) <= count.relationships
    /\ (Wrote /\ {lastRel.orig.source_entity_name,
                  lastRel.orig.target_entity_name} \subseteq BatchNames)
         => \E e \in edges :
              /\ nodes[e.src].name = lastRel.orig.source_entity_name
              /\ nodes[e.dst].name = lastRel.orig.target_entity_name
              /\ e.rel = Sanitize(lastRel.orig.relation_type)

\* Two entities with a category and one "commissioned" between them.
C9_TwoNodesOneEdge ==
  /\ FirstBatch
  /\ count = [entities |-> 2, relationships |-> 1]
  /\ Len(nodes) = 2
  /\ Cardinality(edges) = 1
  /\ \A e \in edges : e.rel = "commissioned" /\ e.src # e.dst

\* ====================================================================
\* Properties of add_entity's outcomes, checked under Spec
\* ====================================================================
Merged == Called /\ ~last.raised /\ last.resolution.action = "merge"

\* C11: after a Merge with new_name N and new_description D against node A
\* the graph store holds a node named N with description D, holds no node
\* named A when N differs from A, has no more nodes than before, and the
\* vector store holds the row N with description D.
C11_MergeRenamesNode ==
  Merged =>
    LET N == last.name
        D == last.description
        A == last.most.name
    IN /\ \E i \in NodeIds(nodes, N) : nodes[i].description = D
       /\ N # A => NodeIds(nodes, A) = {}
       /\ Len(nodes) = last.nodesBefore
       /\ vec[N] = D

\* The vector-store half of C11: the row N with D, and no node created.
C11_RowUnderNewName ==
  /\ Merged
  /\ last.resolution.new_name = last.name
  /\ last.resolution.new_description = last.description
  /\ last.name # last.most.name
  /\ vec[last.name] = last.description
  /\ Len(nodes) = last.nodesBefore

\* C13: after a Distinct with a new_name N that differs from the existing
\* node's name, the candidate (here one with a category) is created under N:
\* add_entity leaves it named N and the graph store holds a node named N.
C13_DistinctRenamesCandidate ==
  (/\ Called /\ ~last.raised
   /\ last.resolution.action = "distinct"
   /\ last.resolution.new_name \notin {NoName, last.most.name}
   /\ last.orig.category # {})
  => /\ last.name = last.resolution.new_name
     /\ NodeIds(nodes, last.resolution.new_name) # {}

\* What add_entity does on such a Distinct: a node under the extracted name.
C13_CreatedUnderExtractedName ==
  /\ Called /\ ~last.raised
  /\ last.resolution.action = "distinct"
  /\ last.resolution.new_name \notin {NoName, last.most.name, last.orig.name}
  /\ last.name = last.orig.name
  /\ last.createCalls = 1
  /\ NodeIds(nodes, last.orig.name) # {}
  /\ NodeIds(nodes, last.resolution.new_name) = {}

\* C16: when the graph store has no node for the best match's name,
\* add_entity raises nothing, in the auto-merge branch and in the arbitration
\* branch, and merge_knowledge_graph goes on with the batch.
C16_LookupNeverFatal ==
  (Matched /\ last.most.score >= ConflictThreshold
           /\ last.most.name \notin NodeNames(nodes))
  => /\ ~last.raised
     /\ ret # "raised"
     /\ pc = "entities"

\* C17: after a Merge that renames A to another name N the vector store has
\* no row A.
C17_MergedAwayRowDeleted ==
  (Merged /\ last.name # last.most.name) => vec[last.most.name] = NoRow

\* ====================================================================
\* Properties of the relationship cascade, checked under SpecRel
\* ====================================================================
\* C12: when a candidate of the batch was merged with existing node A under
\* another name N, a relationship of the batch whose source or target reads A
\* is written with N in its place.
C12_ExistingNameCascades ==
  Wrote =>
    \A B \in Names :
      (fate[B].action = "merge" /\ fate[B].name # fate[B].existing) =>
        /\ lastRel.orig.source_entity_name = fate[B].existing
             => lastRel.source = fate[B].name
        /\ lastRel.orig.target_entity_name = fate[B].existing
             => lastRel.target = fate[B].name

\* What the cascade does reach: the endpoint that reads the candidate's name.
C12_CandidateNameCascades ==
  /\ Wrote
  /\ LET B == lastRel.orig.source_entity_name
     IN /\ fate[B].action = "merge"
        /\ fate[B].name \notin {B, fate[B].existing}
        /\ lastRel.source = fate[B].name
        /\ lastRel.orig.target_entity_name = fate[B].existing
        /\ lastRel.target = fate[B].existing

\* An add_entity step in which the resolver answered Same.
SameStep ==
  /\ count'.entities = count.entities + 1
  /\ ~last'.raised
  /\ last'.resolution.action = "same"

\* C14: on Same the candidate takes the existing node's name, create_node is
\* not called, the graph store and the vector store stay as they were, and
\* the batch's relationships that read the candidate's extracted name are
\* written with the existing name.
C14_SameIsAlias ==
  /\ [][SameStep =>
          /\ nodes' = nodes
          /\ edges' = edges
          /\ vec' = vec
          /\ last'.name = last'.most.name
          /\ last'.createCalls = 0
          /\ name_updates' =
               [name_updates EXCEPT ![last'.orig.name] = last'.most.name]]_vars
  /\ [](Wrote =>
          /\ fate[lastRel.orig.source_entity_name].action = "same"
               => lastRel.source = fate[lastRel.orig.source_entity_name].name
          /\ fate[lastRel.orig.target_entity_name].action = "same"
               => lastRel.target = fate[lastRel.orig.target_entity_name].name)

\* A relationship of a candidate found Same was wired to the existing node.
C14_Witness ==
  /\ Wrote
  /\ LET B == lastRel.orig.source_entity_name
     IN /\ fate[B].action = "same"
        /\ fate[B].name = fate[B].existing
        /\ fate[B].name # B
        /\ lastRel.source = fate[B].existing
        /\ NodeIds(nodes, B) = {}
  /\ lastRel.wired # {}

\* ====================================================================
\* Properties of the scheduler's prompt, checked under SpecRunOutage
\* ====================================================================
\* C15: in a round, the first or a later one, whose paths query gave nothing
\* (no path, or None from a failing store) the prompt handed to
\* generate_reasoning_trace is initial_prompt.
C15_FallbackPrompt ==
  (run.i >= 1 /\ run.paths = {}) => run.prompt = "initial"

\* A later round on a graph without edges falls back to initial_prompt.
C15_LaterRoundFallsBack ==
  /\ run.i = 2
  /\ Len(nodes) >= 2
  /\ edges = {}
  /\ run.paths = {}
  /\ run.prompt = "initial"

\* ====================================================================
\* Properties of add_entity under a failing embedder, checked under SpecOutage
\* ====================================================================
\* C20: when the embedding capability fails during add_entity's lookups,
\* nothing is raised, the pooled result is empty, the resolver and the LLM are
\* not called, and create_node is called once under the candidate's own name
\* (giving a node of that name when the candidate has a category).
C20_EmbedFailureFallsBack ==
  (Called /\ ~last.env.embedUp) =>
    /\ ~last.raised
    /\ last.most = NoMatch
    /\ last.resolverCalls = 0
    /\ last.arbiterCalls = 0
    /\ last.createCalls = 1
    /\ last.name = last.orig.name
    /\ last.orig.category # {} =>
         /\ last.id # 0
         /\ last.id \in NodeIds(nodes, last.orig.name)

\* The embedder failed for a candidate that a row of the store resembles.
C20_Witness ==
  /\ Called /\ ~last.env.embedUp
  /\ \E n \in Rows(vec) \ {last.orig.name} :
       sim[{n, last.orig.name}] >= ConflictThreshold
  /\ last.most = NoMatch
  /\ last.createCalls = 1
  /\ last.id # 0

\* ====================================================================
\* Properties of the entity_embeddings table, checked under SpecTable
\* ====================================================================
\* C18: whatever embed_entity and remove_entity calls were made, the table
\* has at most one row for a name, and that row has the description of the
\* name's last successful embed_entity.
C18_UpsertOneRowPerName ==
  \A n \in Names :
    /\ Cardinality(RowsOf(table, n)) <= 1
    /\ \A i \in RowsOf(table, n) : table[i].description = embedded[n].description

\* A name was embedded again with another description, between other rows.
C18_Witness ==
  /\ Len(table) = 3
  /\ table[2].entity_name = "Bob"
  /\ table[2].description = "d2"
  /\ embedded["Bob"] = [description |-> "d2", overwrote |-> TRUE]
  /\ embedded["Cleo"] = NotEmbedded

\* ====================================================================
\* Properties of extract_knowledge_graph, checked under SpecExtract
\* ====================================================================
\* A JSON answer with an entity that has no name, or a relationship that has
\* no source or no target name.
Malformed(c) ==
  /\ c.kind = "json"
  /\ \/ \E i \in 1..Len(c.entities) : c.entities[i].name = Missing
     \/ \E i \in 1..Len(c.relationships) :
          \/ c.relationships[i].source_entity_name = Missing
          \/ c.relationships[i].target_entity_name = Missing

\* C19: a malformed extraction answer is rejected as a whole:
\* extract_knowledge_graph returns None, and none of its entities or
\* relationships, completed with defaults, reaches the caller.
C19_MalformedRejected ==
  (extracted # NoExtraction /\ Malformed(response)) => extracted = AbsentGraph

\* An answer with a name that is no string is rejected with all it holds.
C19_WrongTypeRejected ==
  /\ response.kind = "json"
  /\ Len(response.entities) = 1
  /\ response.entities[1].name = NotAString
  /\ Len(response.relationships) = 1
  /\ ~Malformed(response)
  /\ extracted = AbsentGraph


\* ====================================================================
\* Properties of add_relationship's return value, checked under SpecRel
\* ====================================================================
\* C21: add_relationship returns False whenever the graph store created no
\* edge because an endpoint name, as rewritten, matches no node.
C21_FalseWhenNotCreated ==
  (Wrote /\ Dangling(nodes, lastRel.source, lastRel.target)) => ~lastRel.ok

\* What the code does return for a relationship that wired nothing.
C21_TrueForDroppedEdge ==
  /\ Wrote
  /\ Dangling(nodes, lastRel.source, lastRel.target)
  /\ lastRel.wired = {}
  /\ edges = {}
  /\ lastRel.ok


\* ====================================================================
\* Properties of concurrent generation jobs, checked under SpecJobs
\* ====================================================================
\* A job's task is between the first entity write and the return of its
\* merge_knowledge_graph.
MidBatch(k) == jobs[k].pc \in {"entities", "relationships"} /\ jobs[k].entities >= 1

\* This step is an add_entity or an add_relationship of job j.
WritesIn(j) ==
  jobs'[j].entities + jobs'[j].relationships
    = jobs[j].entities + jobs[j].relationships + 1

C23_EntitiesBeforeRelationships ==
  /\ [][count'.entities # count.entities =>
          /\ count'.entities \in {0, count.entities + 1}
          /\ count'.relationships = 0]_vars
  /\ [](Wrote =>
          /\ lastRel.source = Rewrite(name_updates, lastRel.orig.source_entity_name)
          /\ lastRel.target = Rewrite(name_updates, lastRel.orig.target_entity_name))

\* A second relationship is written after three entities, with an endpoint
\* rewritten by an entry the last entity made.
C23_Witness ==
  /\ Wrote
  /\ count.entities = 3
  /\ count.relationships = 2
  /\ last.orig.name = lastRel.orig.source_entity_name
  /\ name_updates[last.orig.name] # NoName
  /\ lastRel.source = name_updates[last.orig.name]
  /\ lastRel.source # lastRel.orig.source_entity_name


\* ====================================================================
\* Properties of chained renames, checked under SpecChain
\* ====================================================================
\* The name the batch's rewriting should give an endpoint once the last
\* entity was merged with node A under the name N: N for A itself and for
\* every earlier candidate aliased to A.
Superseded(x, Y, A) ==
  \/ x = A
  \/ x # Y /\ fate[x].action \in {"auto", "same"} /\ fate[x].name = A

\* C24: when a candidate X was aliased to node A and a later candidate of the
\* batch is merged with A under a new name N, the relationships that read X
\* and those that read A are written with N.
C24_FinalCanonicalName ==
  (Wrote /\ Merged /\ last.name # last.most.name) =>
    LET Y == last.orig.name
        A == last.most.name
        N == last.name
    IN /\ Superseded(lastRel.orig.source_entity_name, Y, A) => lastRel.source = N
       /\ Superseded(lastRel.orig.target_entity_name, Y, A) => lastRel.target = N

\* What the code writes: Bob was aliased to Ann, Cleo was then merged with
\* Ann as AnnBob, and Bob's relationship is written from Ann.
C24_WrittenWithSupersededName ==
  /\ Wrote
  /\ Merged
  /\ last.orig.name = "Cleo"
  /\ last.most.name = "Ann"
  /\ last.name = "AnnBob"
  /\ fate["Bob"].action \in {"auto", "same"}
  /\ fate["Bob"].name = "Ann"
  /\ lastRel.orig.source_entity_name = "Bob"
  /\ lastRel.orig.target_entity_name = "Cleo"
  /\ lastRel.source = "Ann"
  /\ lastRel.target = "AnnBob"


\* ====================================================================
\* Properties of the pooled match, checked under Spec
\* ====================================================================
\* An add_entity step of the batch.
EntityStep == count'.entities = count.entities + 1

\* What the two lookups yield for the candidate of this step: a row per
\* stored name other than its own, scored by the name embeddings, and the
\* rows the description lookup hands back.
NameMatches ==
  {[name |-> n, score |-> sim'[{n, last'.orig.name}]] :
     n \in Rows(vec) \ {last'.orig.name}}

DescriptionMatches ==
  find_similar_entities_by_description(vec, last'.orig.description, last'.env.embedUp)

Queried == table' = table /\ neighbors' # neighbors

\* C26: on a connected store holding at least one row whose description
\* embedding differs from the query, get_nearest_neighbors_by_description
\* returns a non-empty list of at most limit rows in descending order of
\* similarity, not the absent value.
C26_NeighborsReturned ==
  [][(Queried /\ \E i \in 1..Len(table) : table[i].description # neighbors'.query) =>
       /\ neighbors'.status = "list"
       /\ Len(neighbors'.rows) \in 1..neighbors'.limit
       /\ \A i \in 1..(Len(neighbors'.rows) - 1) :
            neighbors'.rows[i].similarity >= neighbors'.rows[i + 1].similarity]_vars

\* What the code returns with two rows stored: absent when a row differs
\* from the query.
C26_AbsentWithQualifyingRow ==
  /\ Len(table) = 2
  /\ neighbors.status = "absent"
  /\ neighbors.limit = 5
  /\ \E i \in 1..Len(table) : table[i].description # neighbors.query
  /\ neighbors.rows = <<>>


\* ====================================================================
\* Properties of rounds without entities, checked under SpecRun
\* ====================================================================
\* C27: in a round whose extraction returns absent or a graph with zero
\* entities nothing is written to the graph store or the vector store: the
\* extraction step leaves both as they were and ends the round, and every
\* write of a run happens in a round whose extraction returned entities.
C27_NoWriteWithoutEntities ==
  /\ [][(pc = "extract" /\ run'.extraction \in {"absent", "empty"}) =>
          /\ nodes' = nodes
          /\ edges' = edges
          /\ vec' = vec
          /\ pc' \in {"schedule", "done"}]_vars
  /\ [][(nodes' # nodes \/ edges' # edges \/ vec' # vec) =>
          run.extraction = "entities"]_vars

\* A later round of a run that has written a node and an edge extracts a
\* graph without entities and ends with the stores in place.
C27_Witness ==
  /\ run.i >= 2
  /\ run.extraction = "empty"
  /\ pc \in {"schedule", "done"}
  /\ Len(nodes) >= 2
  /\ edges # {}
  /\ Rows(vec) # {}


\* ====================================================================
\* Properties of the two stores together, checked under Spec
\* ====================================================================
\* C28: after any sequence of add_entity calls every name keyed in the
\* vector store is the name of a node of the graph store.
C28_RowsNameNodes == Rows(vec) \subseteq NodeNames(nodes)

\* What a Merge leaves: the row of the merged name and no node of that name.
C28_OrphanRow ==
  /\ Merged
  /\ last.name # last.most.name
  /\ last.name \in Rows(vec)
  /\ last.name \notin NodeNames(nodes)
  /\ last.most.name \in NodeNames(nodes)


\* ====================================================================
\* Properties of a failed create_node, checked under Spec
\* ====================================================================
\* C29: when create_node fails for the entity add_entity tries to create,
\* add_entity embeds nothing, returns the absent id and raises nothing: the
\* vector store is as it was before the call.
C29_NoEmbeddingWithoutNode ==
  [][(EntityStep /\ last'.createCalls = 1 /\ Len(nodes') = Len(nodes)
        /\ last'.name \notin NodeNames(nodes')) =>
       /\ last'.id = 0
       /\ ~last'.raised
       /\ vec' = vec]_vars

\* create_node failed for a second entity of a batch, after the resolver had
\* found it distinct from a stored one.
C29_Witness ==
  /\ Called
  /\ last.createCalls = 1
  /\ last.id = 0
  /\ last.orig.category = {}
  /\ last.resolution.action = "distinct"
  /\ last.name \notin NodeNames(nodes)
  /\ last.name \notin Rows(vec)
  /\ Rows(vec) # {}


\* ====================================================================
\* Properties of unrecognised resolutions, checked under Spec
\* ====================================================================
\* The resolution "distinct" without a new name.
PlainDistinct ==
  [action |-> "distinct", new_name |-> NoName, new_description |-> NoDesc,
   reasoning |-> "llm"]

====
